---- MODULE Spec2Model ----
(***************************************************************************)
(* Model of the are-we-attested-yet data fetcher (src/src/index.mts, the   *)
(* full-document variant, and src/unnamed/part_001, the version-scoped     *)
(* variant): fetchWithRetry, fetchTopNpmPackages, fetchPackageAttestation  *)
(* and main's batch loop.                                                  *)
(*                                                                         *)
(* Every await is a point where the event loop may run another             *)
(* continuation; code between two awaits runs as one step.  A response     *)
(* carries its body, so the `await response.json()` that directly follows  *)
(* fetchWithRetry's return is taken in the same step as the response.      *)
(***************************************************************************)
EXTENDS Integers, Sequences, FiniteSets, TLC

VARIABLES
    variant,            \* which pipeline runs: "full" (index.mts) or "versioned" (part_001)
    fw,                 \* the fetchWithRetry frame of the sequential caller
    limit,              \* fetchTopNpmPackages: its argument
    lpc,                \* fetchTopNpmPackages: position
    page,               \* fetchTopNpmPackages: loop variable
    allPackages,        \* fetchTopNpmPackages: accumulated list
    listed,             \* fetchTopNpmPackages: the value returned
    pagesRequested,     \* history: page numbers requested, in order
    pagesReceived,      \* history: data.length of every page received, in order
    pageDelays,         \* history: the inter-page timeouts set
    mpc,                \* main: position
    packageNames,       \* main: the list returned by the lister
    i,                  \* main: loop variable of the batch loop
    attestationResults, \* main: accumulated non-null results
    members,            \* main: one fetchPackageAttestation promise per list position
    calls,              \* history: checker invocations per list position
    batches,            \* history: the batches formed, each a sequence of positions
    batchDelays,        \* history: the inter-batch timeouts set
    overtaken,          \* history: a checker settled before an earlier one of its batch
    report,             \* the content of output.json (NoReport until written)
    writes,             \* history: number of writeFileSync calls
    exitCode            \* process exit status (Running until the process ends)

vars == <<variant, fw, limit, lpc, page, allPackages, listed, pagesRequested,
          pagesReceived, pageDelays, mpc, packageNames, i, attestationResults,
          members, calls, batches, batchDelays, overtaken,
          report, writes, exitCode>>

listerVars == <<limit, lpc, page, allPackages, listed, pagesRequested,
                pagesReceived, pageDelays>>

mainVars == <<mpc, packageNames, i, attestationResults, members, calls, batches,
              batchDelays, overtaken, report, writes, exitCode>>

----------------------------------------------------------------------------
(* Program constants *)

retries == 3
baseDelay == 1000
perPage == 100
mainLimit == 500
pageDelay == 500
batchSize == 10
batchDelay == 1000

(* Bounds of the environment *)

\* Lists longer than this are not taken through the batch loop.
MaxRefs == 25

\* fetchWithRetry as a unit: its `retries` argument is at most this.
MaxRetries == 4

\* The report as a unit: it is built from at most this many records.
MaxResults == 8

\* fetchWithRetry as a unit: its `baseDelay` argument.
BaseDelays == {baseDelay, 250}

\* HTTP statuses a server answers with.
Statuses == {200, 299, 304, 404, 499, 500, 503}

\* Statuses the upstream APIs answer with inside the pipeline.
ApiStatuses == {200, 404, 503}

\* data.length of a ranking page.
PageLens == {0, 1, batchSize, batchSize + 1, MaxRefs, 42, perPage, perPage + 1}

\* Arguments fetchTopNpmPackages is called with as a unit.
Limits == {0, 1, 42, 100, 150, 500}

\* List positions whose registry request may be answered abnormally.
FaultyRefs == {1, 2, batchSize + 1}

----------------------------------------------------------------------------
(* Helpers *)

RECURSIVE Pow2(_)
Pow2(n) == IF n = 0 THEN 1 ELSE 2 * Pow2(n - 1)

Min(a, b) == IF a <= b THEN a ELSE b

\* Math.ceil(a / b) for a >= 0, b > 0
Ceil(a, b) == (a + b - 1) \div b

\* Array.prototype.slice(from, to) with 0-based from, exclusive to, 0 <= from
Slice(s, from, to) == SubSeq(s, from + 1, Min(to, Len(s)))

----------------------------------------------------------------------------
(* fetchWithRetry *)

\* Response.ok
IsOk(status) == status >= 200 /\ status <= 299

NoError == 0

\* The frame when fetchWithRetry(url, r, b) is called: attempt 1, first
\* fetch(url) issued.
FWCall(r, b) ==
    [pc |-> IF 1 <= r THEN "fetch" ELSE "thrown",
     retries |-> r, baseDelay |-> b, attempt |-> 1,
     requests |-> IF 1 <= r THEN 1 ELSE 0,
     responses |-> <<>>, delays |-> <<>>, error |-> NoError]

\* fetchWithRetry(url): both parameters at their defaults.
FWNew == FWCall(retries, baseDelay)

\* Variant of FWDelay: the exponent is the attempt, not the attempt less one.
FWDelayFromAttempt(b, attempt) == b * Pow2(attempt)

\* The timeout set before retrying after the given attempt.
FWDelay(b, attempt) == b * Pow2(attempt - 1)

\* Variant of FWShouldRetry: the final attempt is retried as well.
FWShouldRetryOnLast(status, attempt, r) == status >= 500 /\ attempt <= r

\* Whether a non-ok response on the given attempt is retried.
FWShouldRetry(status, attempt, r) == status >= 500 /\ attempt < r

\* `await fetch(url)` resolves with a response of the given status.
FWResponse(c, status) ==
    LET c1 == [c EXCEPT !.responses = Append(@, status)] IN
    IF IsOk(status)
    THEN [c1 EXCEPT !.pc = "returned"]
    ELSE IF FWShouldRetry(status, c.attempt, c.retries)
    THEN [c1 EXCEPT !.pc = "delay",
                    !.delays = Append(@, FWDelay(c.baseDelay, c.attempt))]
    ELSE [c1 EXCEPT !.pc = "thrown", !.error = status]

\* Variant of FWReject: a rejection is handled like a 5xx response, with a
\* backoff and another attempt while attempts are left.
FWRejectRetried(c) ==
    IF c.attempt < c.retries
    THEN [c EXCEPT !.pc = "delay",
                   !.delays = Append(@, FWDelay(c.baseDelay, c.attempt))]
    ELSE [c EXCEPT !.pc = "rejected"]

\* `await fetch(url)` rejects: nothing catches it inside fetchWithRetry.
FWReject(c) == [c EXCEPT !.pc = "rejected"]

\* The backoff timeout fires: `continue`, next attempt, next fetch(url).
FWTimer(c) ==
    IF c.attempt + 1 <= c.retries
    THEN [c EXCEPT !.pc = "fetch", !.attempt = @ + 1, !.requests = @ + 1]
    ELSE [c EXCEPT !.pc = "thrown", !.attempt = @ + 1]

FWSettled(c) == c.pc \in {"returned", "thrown", "rejected"}

\* A frame that is not in use.
FWIdle == [FWNew EXCEPT !.pc = "idle", !.requests = 0]

----------------------------------------------------------------------------
(* fetchWithRetry called as a unit: one call, every response sequence *)

FetchResponse ==
    /\ lpc = "unit"
    /\ fw.pc = "fetch"
    /\ \E status \in Statuses : fw' = FWResponse(fw, status)
    /\ UNCHANGED <<variant, listerVars, mainVars>>

FetchRejected ==
    /\ lpc = "unit"
    /\ fw.pc = "fetch"
    /\ fw' = FWReject(fw)
    /\ UNCHANGED <<variant, listerVars, mainVars>>

FetchTimer ==
    /\ lpc = "unit"
    /\ fw.pc = "delay"
    /\ fw' = FWTimer(fw)
    /\ UNCHANGED <<variant, listerVars, mainVars>>

----------------------------------------------------------------------------
(* The ranking API and fetchTopNpmPackages *)

\* The items of ranking page p when it holds len items: their download rank.
PageItems(p, len) == [k \in 1..len |-> (p - 1) * perPage + k]

TotalPages(lim) == Ceil(lim, perPage)

\* Variant of ListerResult: the accumulated list is returned uncut.
ListerResultUncut(all, lim) == all

\* The value returned: allPackages.slice(0, limit)
ListerResult(all, lim) == Slice(all, 0, lim)

\* Variant of ListerShort: only an empty page ends the pagination.
ListerShortOnlyEmpty(len) == len = 0

\* `data.length < perPage`: the end of the available packages, break.
ListerShort(len) == len < perPage

\* Variant of ListerWaits: the timeout is set after every full page.
ListerWaitsAlways(p, lim) == TRUE

\* `page < totalPages`: not the last page, a timeout is set before the next one.
ListerWaits(p, lim) == p < TotalPages(lim)

\* fetchWithRetry(url) resolved and response.json() gave an array of len items.
\* After the last page, page++ fails the loop condition and the list is returned.
ListerPageData ==
    /\ lpc = "fetch"
    /\ fw.pc = "fetch"
    /\ \E status \in {s \in ApiStatuses : IsOk(s)}, len \in PageLens :
         LET all == allPackages \o PageItems(page, len) IN
         /\ fw' = FWResponse(fw, status)
         /\ allPackages' = all
         /\ pagesReceived' = Append(pagesReceived, len)
         /\ IF ~ListerShort(len) /\ ListerWaits(page, limit)
            THEN /\ lpc' = "delay"
                 /\ pageDelays' = Append(pageDelays, pageDelay)
                 /\ listed' = listed
            ELSE /\ lpc' = "returned"
                 /\ listed' = ListerResult(all, limit)
                 /\ pageDelays' = pageDelays
    /\ UNCHANGED <<variant, limit, page, pagesRequested, mainVars>>

\* fetchWithRetry(url) resolved and response.json() rejected: caught, rethrown.
ListerPageMalformed ==
    /\ lpc = "fetch"
    /\ fw.pc = "fetch"
    /\ \E status \in {s \in ApiStatuses : IsOk(s)} : fw' = FWResponse(fw, status)
    /\ lpc' = "thrown"
    /\ UNCHANGED <<variant, limit, page, allPackages, listed, pagesRequested,
                   pagesReceived, pageDelays, mainVars>>

\* A non-ok response: fetchWithRetry backs off, or throws and the lister rethrows.
ListerPageError ==
    /\ lpc = "fetch"
    /\ fw.pc = "fetch"
    /\ \E status \in {s \in ApiStatuses : ~IsOk(s)} :
         /\ fw' = FWResponse(fw, status)
         /\ lpc' = IF fw'.pc = "thrown" THEN "thrown" ELSE lpc
    /\ UNCHANGED <<variant, limit, page, allPackages, listed, pagesRequested,
                   pagesReceived, pageDelays, mainVars>>

\* fetch(url) rejected: through fetchWithRetry, caught and rethrown by the lister.
ListerFetchRejected ==
    /\ lpc = "fetch"
    /\ fw.pc = "fetch"
    /\ fw' = FWReject(fw)
    /\ lpc' = "thrown"
    /\ UNCHANGED <<variant, limit, page, allPackages, listed, pagesRequested,
                   pagesReceived, pageDelays, mainVars>>

\* The backoff timeout of the page request fires.
ListerRetryTimer ==
    /\ lpc = "fetch"
    /\ fw.pc = "delay"
    /\ fw' = FWTimer(fw)
    /\ lpc' = IF fw'.pc = "thrown" THEN "thrown" ELSE lpc
    /\ UNCHANGED <<variant, limit, page, allPackages, listed, pagesRequested,
                   pagesReceived, pageDelays, mainVars>>

\* The inter-page timeout fires: page++, and the next fetchWithRetry(url) while
\* page <= totalPages.
ListerPageTimer ==
    /\ lpc = "delay"
    /\ page' = page + 1
    /\ IF page + 1 <= TotalPages(limit)
       THEN /\ lpc' = "fetch"
            /\ fw' = FWNew
            /\ pagesRequested' = Append(pagesRequested, page + 1)
            /\ listed' = listed
       ELSE /\ lpc' = "returned"
            /\ listed' = ListerResult(allPackages, limit)
            /\ UNCHANGED <<fw, pagesRequested>>
    /\ UNCHANGED <<variant, limit, allPackages, pagesReceived, pageDelays, mainVars>>

\* fetchTopNpmPackages(lim) up to its first await.
ListerInit(lim) ==
    /\ limit = lim
    /\ page = 1
    /\ allPackages = <<>>
    /\ listed = <<>>
    /\ pageDelays = <<>>
    /\ pagesReceived = <<>>
    /\ IF 1 <= TotalPages(lim)
       THEN /\ lpc = "fetch"
            /\ fw = FWNew
            /\ pagesRequested = <<1>>
       ELSE /\ lpc = "returned"
            /\ fw = FWIdle
            /\ pagesRequested = <<>>

----------------------------------------------------------------------------
(* Upstream data.  What the APIs hold for a package is a function of the     *)
(* package, so that every run sees the same upstream.                        *)

\* JavaScript null or undefined.
Nil == "<nil>"

\* Variant of OrEmpty: the value is passed on as it is.
OrEmptyAsIs(x) == x

\* `x || ""`
OrEmpty(x) == IF x = Nil \/ x = "" THEN "" ELSE x

GithubUrl == "git+https://github.com/foo/bar.git"
OtherUrl == "https://example.com/foo"
GitlabUrl == "https://gitlab.com/foo/bar"
GitlabSshUrl == "git+ssh://git@gitlab.com/foo/bar.git"
MixedCaseUrl == "https://GitHub.com/Foo/Bar"
UpperCaseUrl == "GIT+HTTPS://GITLAB.COM/FOO.GIT"
NearMissUrl == "https://github.co/m.git"
OtherGitUrl == "git+https://example.com/foo.git"
OnlyAffixesUrl == "git+.git"

\* Repository URLs a report is built from as a unit.
Urls == {"", GithubUrl, OtherUrl, GitlabUrl, GitlabSshUrl, MixedCaseUrl,
         UpperCaseUrl, NearMissUrl, OtherGitUrl, OnlyAffixesUrl}
AttestationUrl == "https://registry.npmjs.org/-/npm/v1/attestations/pkg"

\* The ranking API's entry for a package (EcosystemsPackage).
RankingEntry(id) ==
    [name |-> id,
     repository_url |-> IF id % 4 = 0 THEN Nil
                        ELSE IF id % 2 = 0 THEN OtherUrl ELSE GithubUrl,
     latest_release_number |-> IF id % 5 = 3 THEN Nil ELSE "1.0.0",
     latest_release_published_at |-> IF id % 6 = 5 THEN Nil ELSE "2024-01-01"]

\* Bodies the registry answers an ok response with.
Bodies(v) ==
    IF v = "full" THEN {"good", "nolatest", "noversion", "malformed"}
    ELSE {"good", "malformed"}

\* The registry's document for a package, as far as the checker reads it:
\* NpmPackageMetadata (full) or NpmVersionMetadata (versioned).
RegistryDoc(id, body) ==
    [malformed |-> body = "malformed",
     latest |-> IF body = "nolatest" THEN Nil ELSE "1.0.0",
     hasLatestVersion |-> body # "noversion",
     time |-> IF id % 6 = 5 THEN Nil ELSE "2024-01-01",
     repositoryUrl |-> IF id % 4 = 0 THEN Nil
                       ELSE IF id % 2 = 0 THEN OtherUrl ELSE GithubUrl,
     attestationsUrl |-> IF id % 3 = 0 THEN AttestationUrl ELSE Nil,
     trustedPublisherId |-> IF id % 6 = 0 THEN "github" ELSE Nil]

----------------------------------------------------------------------------
(* fetchPackageAttestation *)

\* output.json before it is written.
NoReport == [written |-> FALSE]

\* The exit status while the process runs.
Running == -1

\* The promise resolved with null.
Null == [null |-> TRUE]

\* The promise rejected.
Rejected == [rejected |-> TRUE]

NoResult == [pending |-> TRUE]

\* Variant of CheckerCaught: the error is not caught and rejects the promise.
CheckerUncaught == Rejected

\* The catch block of fetchPackageAttestation: `return null`.
CheckerCaught == Null

\* Variant of CheckerFull: a document without the latest tag or without that
\* version's entry gives a record with empty fields, as a ref without a version
\* does in the version-scoped strategy.
CheckerFullKeepsMissing(name, c, doc) ==
    IF c.pc # "returned" \/ doc.malformed
    THEN CheckerCaught
    ELSE IF doc.latest = Nil \/ doc.latest = "" \/ ~doc.hasLatestVersion
    THEN [name |-> name, version |-> "", lastUploaded |-> "",
          attestationsUrl |-> "", trustedPublisherId |-> "",
          repositoryUrl |-> OrEmpty(doc.repositoryUrl)]
    ELSE [name |-> name,
          version |-> doc.latest,
          lastUploaded |-> OrEmpty(doc.time),
          attestationsUrl |-> OrEmpty(doc.attestationsUrl),
          trustedPublisherId |-> OrEmpty(doc.trustedPublisherId),
          repositoryUrl |-> OrEmpty(doc.repositoryUrl)]

\* index.mts: the value of fetchPackageAttestation(packageName) once
\* fetchWithRetry has settled with frame c and the body parses to doc.
CheckerFull(name, c, doc) ==
    IF c.pc # "returned" \/ doc.malformed
    THEN CheckerCaught
    ELSE IF doc.latest = Nil \/ doc.latest = "" \/ ~doc.hasLatestVersion
    THEN Null
    ELSE [name |-> name,
          version |-> doc.latest,
          lastUploaded |-> OrEmpty(doc.time),
          attestationsUrl |-> OrEmpty(doc.attestationsUrl),
          trustedPublisherId |-> OrEmpty(doc.trustedPublisherId),
          repositoryUrl |-> OrEmpty(doc.repositoryUrl)]

\* Variant of HasNoVersion: a reference without a version is looked up as well.
HasNoVersionNever(pkg) == FALSE

\* part_001: `!latestVersion`, the reference carries no version.
HasNoVersion(pkg) ==
    pkg.latest_release_number = Nil \/ pkg.latest_release_number = ""

\* Variant of CheckerSkipped: a reference without a version is skipped for good.
CheckerSkippedAsNull(pkg) == Null

\* part_001: the record returned without any request when no version is known.
CheckerSkipped(pkg) ==
    [name |-> pkg.name,
     version |-> "",
     lastUploaded |-> OrEmpty(pkg.latest_release_published_at),
     attestationsUrl |-> "",
     trustedPublisherId |-> "",
     repositoryUrl |-> OrEmpty(pkg.repository_url)]

\* part_001: the value of fetchPackageAttestation(pkg) once fetchWithRetry has
\* settled with frame c and the body parses to doc.
CheckerVersioned(pkg, c, doc) ==
    IF c.pc # "returned" \/ doc.malformed
    THEN CheckerCaught
    ELSE [name |-> pkg.name,
          version |-> pkg.latest_release_number,
          lastUploaded |-> OrEmpty(pkg.latest_release_published_at),
          attestationsUrl |-> OrEmpty(doc.attestationsUrl),
          trustedPublisherId |-> OrEmpty(doc.trustedPublisherId),
          repositoryUrl |-> OrEmpty(pkg.repository_url)]

CheckerValue(v, id, c, body) ==
    IF v = "full"
    THEN CheckerFull(id, c, RegistryDoc(id, body))
    ELSE CheckerVersioned(RankingEntry(id), c, RegistryDoc(id, body))

\* History: fetchWithRetry threw or rejected, or response.json() rejected.
LookupFailed(c, body) == c.pc # "returned" \/ body = "malformed"

\* History: the kind of document the checker read, "" when it read none.
DocRead(c, body) == IF LookupFailed(c, body) THEN "" ELSE body

\* A promise that has not been created.
MemberIdle ==
    [pc |-> "idle", fw |-> FWIdle, result |-> NoResult, failed |-> FALSE, doc |-> ""]

\* A settled promise; `failed` and `doc` are history, the frame is gone.
MemberDone(value, failure, docRead) ==
    [pc |-> "done", fw |-> FWIdle, result |-> value, failed |-> failure,
     doc |-> docRead]

\* fetchPackageAttestation(ref) up to its first await.
CheckerInvoke(v, id) ==
    IF v = "versioned" /\ HasNoVersion(RankingEntry(id))
    THEN MemberDone(CheckerSkipped(RankingEntry(id)), FALSE, "")
    ELSE [pc |-> "fetch", fw |-> FWNew, result |-> NoResult, failed |-> FALSE,
          doc |-> ""]

\* The member after its fetchWithRetry frame moved to c: still retrying, or
\* settled with the checker's value.
MemberAfter(v, id, c, body) ==
    IF FWSettled(c)
    THEN MemberDone(CheckerValue(v, id, c, body), LookupFailed(c, body),
                    DocRead(c, body))
    ELSE [pc |-> "fetch", fw |-> c, result |-> NoResult, failed |-> FALSE,
          doc |-> ""]

\* History: member p has settled in the step from ms to ms2 while a member
\* before it in the batch at `from` is still in flight.
Overtakes(ms, ms2, from, p) ==
    /\ ms[p].pc = "fetch"
    /\ ms2[p].pc = "done"
    /\ \E q \in (from + 1)..(p - 1) : ms[q].pc = "fetch"

\* An ok response with a body for the member at position p.  The registry
\* answers positions outside FaultyRefs with a good document.
CheckerOk(p) ==
    /\ exitCode = Running
    /\ members[p].pc = "fetch"
    /\ members[p].fw.pc = "fetch"
    /\ \E status \in {s \in ApiStatuses : IsOk(s)},
          body \in (IF p \in FaultyRefs THEN Bodies(variant) ELSE {"good"}) :
         members' = [members EXCEPT ![p] =
             MemberAfter(variant, packageNames[p],
                         FWResponse(members[p].fw, status), body)]
    /\ overtaken' = (overtaken \/ Overtakes(members, members', i, p))
    /\ UNCHANGED <<variant, fw, listerVars, mpc, packageNames, i,
                   attestationResults, calls, batches, batchDelays, report,
                   writes, exitCode>>

\* A non-ok response for the member at position p.
CheckerError(p) ==
    /\ mpc \in {"batch", "delay"}
    /\ p \in FaultyRefs
    /\ members[p].pc = "fetch"
    /\ members[p].fw.pc = "fetch"
    /\ \E status \in {s \in ApiStatuses : ~IsOk(s)} :
         members' = [members EXCEPT ![p] =
             MemberAfter(variant, packageNames[p],
                         FWResponse(members[p].fw, status), "good")]
    /\ overtaken' = (overtaken \/ Overtakes(members, members', i, p))
    /\ UNCHANGED <<variant, fw, listerVars, mpc, packageNames, i,
                   attestationResults, calls, batches, batchDelays, report,
                   writes, exitCode>>

\* fetch(url) rejected for the member at position p.
CheckerFetchRejected(p) ==
    /\ mpc \in {"batch", "delay"}
    /\ p \in FaultyRefs
    /\ members[p].pc = "fetch"
    /\ members[p].fw.pc = "fetch"
    /\ members' = [members EXCEPT ![p] =
           MemberAfter(variant, packageNames[p], FWReject(members[p].fw), "good")]
    /\ overtaken' = (overtaken \/ Overtakes(members, members', i, p))
    /\ UNCHANGED <<variant, fw, listerVars, mpc, packageNames, i,
                   attestationResults, calls, batches, batchDelays, report,
                   writes, exitCode>>

\* The backoff timeout of the member at position p fires.
CheckerRetryTimer(p) ==
    /\ exitCode = Running
    /\ members[p].pc = "fetch"
    /\ members[p].fw.pc = "delay"
    /\ members' = [members EXCEPT ![p] =
           MemberAfter(variant, packageNames[p], FWTimer(members[p].fw), "good")]
    /\ overtaken' = (overtaken \/ Overtakes(members, members', i, p))
    /\ UNCHANGED <<variant, fw, listerVars, mpc, packageNames, i,
                   attestationResults, calls, batches, batchDelays, report,
                   writes, exitCode>>

----------------------------------------------------------------------------
(* Strings.  A string is handled as the sequence of its characters. *)

\* The characters of a repository URL.
Chars(url) ==
    CASE url = "" -> <<>>
      [] url = GithubUrl ->
           <<"g", "i", "t", "+", "h", "t", "t", "p", "s", ":", "/", "/",
           "g", "i", "t", "h", "u", "b", ".", "c", "o", "m", "/", "f",
           "o", "o", "/", "b", "a", "r", ".", "g", "i", "t">>
      [] url = OtherUrl ->
           <<"h", "t", "t", "p", "s", ":", "/", "/", "e", "x", "a", "m",
           "p", "l", "e", ".", "c", "o", "m", "/", "f", "o", "o">>
      [] url = GitlabUrl ->
           <<"h", "t", "t", "p", "s", ":", "/", "/", "g", "i", "t", "l",
           "a", "b", ".", "c", "o", "m", "/", "f", "o", "o", "/", "b",
           "a", "r">>
      [] url = GitlabSshUrl ->
           <<"g", "i", "t", "+", "s", "s", "h", ":", "/", "/", "g", "i",
           "t", "@", "g", "i", "t", "l", "a", "b", ".", "c", "o", "m",
           "/", "f", "o", "o", "/", "b", "a", "r", ".", "g", "i", "t">>
      [] url = MixedCaseUrl ->
           <<"h", "t", "t", "p", "s", ":", "/", "/", "G", "i", "t", "H",
           "u", "b", ".", "c", "o", "m", "/", "F", "o", "o", "/", "B",
           "a", "r">>
      [] url = UpperCaseUrl ->
           <<"G", "I", "T", "+", "H", "T", "T", "P", "S", ":", "/", "/",
           "G", "I", "T", "L", "A", "B", ".", "C", "O", "M", "/", "F",
           "O", "O", ".", "G", "I", "T">>
      [] url = NearMissUrl ->
           <<"h", "t", "t", "p", "s", ":", "/", "/", "g", "i", "t", "h",
           "u", "b", ".", "c", "o", "/", "m", ".", "g", "i", "t">>
      [] url = OtherGitUrl ->
           <<"g", "i", "t", "+", "h", "t", "t", "p", "s", ":", "/", "/",
           "e", "x", "a", "m", "p", "l", "e", ".", "c", "o", "m", "/",
           "f", "o", "o", ".", "g", "i", "t">>
      [] url = OnlyAffixesUrl ->
           <<"g", "i", "t", "+", ".", "g", "i", "t">>

UpperLetters == <<"A", "B", "C", "D", "E", "F", "G", "H", "I", "J", "K", "L",
                "M", "N", "O", "P", "Q", "R", "S", "T", "U", "V", "W", "X",
                "Y", "Z">>
LowerLetters == <<"a", "b", "c", "d", "e", "f", "g", "h", "i", "j", "k", "l",
                "m", "n", "o", "p", "q", "r", "s", "t", "u", "v", "w", "x",
                "y", "z">>

\* String.prototype.toLowerCase, one character.
LowerChar(ch) ==
    IF \E k \in 1..Len(UpperLetters) : UpperLetters[k] = ch
    THEN LowerLetters[CHOOSE k \in 1..Len(UpperLetters) : UpperLetters[k] = ch]
    ELSE ch

\* String.prototype.toLowerCase
ToLowerCase(s) == [k \in 1..Len(s) |-> LowerChar(s[k])]

\* pat occurs in s at 0-based offset k.
MatchesAt(s, pat, k) ==
    /\ k + Len(pat) <= Len(s)
    /\ SubSeq(s, k + 1, k + Len(pat)) = pat

\* s.replace(/^pat/, ""): a leading pat is removed.
RemovePrefix(s, pat) ==
    IF MatchesAt(s, pat, 0) THEN SubSeq(s, Len(pat) + 1, Len(s)) ELSE s

\* s.replace(/pat$/, ""): a trailing pat is removed.
RemoveSuffix(s, pat) ==
    IF Len(pat) <= Len(s) /\ MatchesAt(s, pat, Len(s) - Len(pat))
    THEN SubSeq(s, 1, Len(s) - Len(pat))
    ELSE s

\* String.prototype.includes: the first offset from k on where pat occurs.
RECURSIVE IncludesFrom(_, _, _)
IncludesFrom(s, pat, k) ==
    IF k + Len(pat) > Len(s) THEN FALSE
    ELSE IF MatchesAt(s, pat, k) THEN TRUE
    ELSE IncludesFrom(s, pat, k + 1)

Includes(s, pat) == IncludesFrom(s, pat, 0)

GitPlus == <<"g", "i", "t", "+">>
DotGit == <<".", "g", "i", "t">>
GithubCom == <<"g", "i", "t", "h", "u", "b", ".", "c", "o", "m">>
GitlabCom == <<"g", "i", "t", "l", "a", "b", ".", "c", "o", "m">>

----------------------------------------------------------------------------
(* main *)

\* Variant of IsSupportedPlatform: only github.com is looked for.
IsSupportedPlatformGithubOnly(url) ==
    IF url = "" THEN FALSE
    ELSE LET lower == ToLowerCase(Chars(url))
             cleanUrl == RemoveSuffix(RemovePrefix(lower, GitPlus), DotGit) IN
         Includes(cleanUrl, GithubCom)

\* isSupportedPlatform(repositoryUrl)
IsSupportedPlatform(url) ==
    IF url = "" THEN FALSE
    ELSE LET lower == ToLowerCase(Chars(url))
             cleanUrl == RemoveSuffix(RemovePrefix(lower, GitPlus), DotGit) IN
         Includes(cleanUrl, GithubCom) \/ Includes(cleanUrl, GitlabCom)

\* isSupportedPlatform on every repository URL of the upstream data, worked out
\* once.
SupportedPlatform == [url \in Urls |-> IsSupportedPlatform(url)]

\* Variant of PercentTenths: the percentage is cut, not rounded.
PercentTenthsCut(x, y) == (1000 * x) \div y

\* (x / y * 100).toFixed(1) in tenths, for y > 0: rounded to the nearest tenth.
PercentTenths(x, y) == (2000 * x + y) \div (2 * y)

CountWithAttestations(pkgs) ==
    Cardinality({k \in 1..Len(pkgs) : pkgs[k].attestationsUrl # ""})

\* Variant of RankOf: the rank is the position in the listed packages.
RankOfListed(index, result) == result.name

\* `rank: index + 1` for the 0-based index of attestationResults.map
RankOf(index, result) == index + 1

\* The `packages` array: attestationResults.map(...)
ReportPackages(results) ==
    [k \in 1..Len(results) |->
        [rank |-> RankOf(k - 1, results[k]),
         package |-> results[k].name,
         version |-> results[k].version,
         lastUploaded |-> results[k].lastUploaded,
         attestationsUrl |-> results[k].attestationsUrl,
         trustedPublisherId |-> results[k].trustedPublisherId,
         repositoryUrl |-> results[k].repositoryUrl,
         isSupportedPlatform |-> SupportedPlatform[results[k].repositoryUrl]]]

\* The object written to output.json (generated_at left out).
BuildReport(results) ==
    LET pkgs == ReportPackages(results)
        total == Len(pkgs)
        withAtt == CountWithAttestations(pkgs) IN
    [written |-> TRUE,
     total_packages |-> total,
     packages_with_attestations |-> withAtt,
     percentage_is_nan |-> total = 0,
     percentage_tenths |-> IF total = 0 THEN 0 ELSE PercentTenths(withAtt, total),
     packages |-> pkgs]

\* The positions of packageNames.slice(i, i + batchSize), list of length n.
BatchPositions(from, n) == [k \in 1..(Min(from + batchSize, n) - from) |-> from + k]

Range(s) == {s[k] : k \in 1..Len(s)}

\* batch.map(fetchPackageAttestation): one promise per member of the batch.
StartBatch(ms, v, names, from) ==
    [p \in DOMAIN ms |->
        IF p \in Range(BatchPositions(from, Len(names)))
        THEN CheckerInvoke(v, names[p])
        ELSE ms[p]]

\* Variant of BatchSettled: Promise.race, the first settled member resolves it.
BatchSettledAny(ms, from) ==
    \E p \in Range(BatchPositions(from, Len(ms))) : ms[p].pc = "done"

\* Promise.all(batchPromises) has settled: every member fulfilled, or one rejected.
BatchSettled(ms, from) ==
    \/ \A p \in Range(BatchPositions(from, Len(ms))) : ms[p].pc = "done"
    \/ \E p \in Range(BatchPositions(from, Len(ms))) : ms[p].result = Rejected

BatchRejected(ms, from) ==
    \E p \in Range(BatchPositions(from, Len(ms))) : ms[p].result = Rejected

\* Variant of BatchResults: the results are taken in the reverse order of the batch.
BatchResultsReversed(ms, from) ==
    LET pos == BatchPositions(from, Len(ms))
        vals == [k \in 1..Len(pos) |-> ms[pos[Len(pos) + 1 - k]].result] IN
    SelectSeq(vals, LAMBDA r : r # Null /\ r # NoResult)

\* batchResults.filter((result) => result !== null), in the order of the batch.
BatchResults(ms, from) ==
    LET pos == BatchPositions(from, Len(ms))
        vals == [k \in 1..Len(pos) |-> ms[pos[k]].result] IN
    SelectSeq(vals, LAMBDA r : r # Null /\ r # NoResult)

\* Variant of NextIndex: the next batch starts at the last member of this one.
NextIndexOverlap(from) == from + batchSize - 1

\* `i += batchSize`
NextIndex(from) == from + batchSize

\* Variant of MoreBatches: a batch that ends exactly at the end of the list is
\* not taken for the last one.
MoreBatchesInclusive(from, n) == from + batchSize <= n

\* `i + batchSize < packageNames.length`: the batch at `from` is not the last.
MoreBatches(from, n) == from + batchSize < n

\* The rest of main once the lister's list is known: the first batch, or with
\* an empty list straight to the report.  The lister's frames are gone.
MainListed ==
    /\ mpc = "listing"
    /\ lpc = "returned"
    /\ Len(listed) <= MaxRefs
    /\ packageNames' = listed
    /\ i' = 0
    /\ IF 0 < Len(listed)
       THEN /\ mpc' = "batch"
            /\ members' = StartBatch([p \in 1..Len(listed) |-> MemberIdle],
                                     variant, listed, 0)
            /\ calls' = [p \in 1..Len(listed) |->
                           IF p \in Range(BatchPositions(0, Len(listed)))
                           THEN 1 ELSE 0]
            /\ batches' = <<BatchPositions(0, Len(listed))>>
            /\ UNCHANGED <<report, writes, exitCode>>
       ELSE /\ mpc' = "done"
            /\ members' = <<>>
            /\ calls' = <<>>
            /\ batches' = <<>>
            /\ report' = BuildReport(attestationResults)
            /\ writes' = writes + 1
            /\ exitCode' = 0
    /\ fw' = FWIdle
    /\ UNCHANGED <<variant, listerVars, attestationResults, batchDelays, overtaken>>

\* Variant of MainListerFailed: the catch logs the error and the process ends
\* with status 0.
MainListerFailedExitsZero ==
    /\ mpc = "listing"
    /\ lpc = "thrown"
    /\ mpc' = "failed"
    /\ exitCode' = 0
    /\ UNCHANGED <<variant, fw, listerVars, packageNames, i, attestationResults,
                   members, calls, batches, batchDelays, overtaken, report, writes>>

\* fetchTopNpmPackages threw: main's catch logs it and calls process.exit(1).
MainListerFailed ==
    /\ mpc = "listing"
    /\ lpc = "thrown"
    /\ mpc' = "failed"
    /\ exitCode' = 1
    /\ UNCHANGED <<variant, fw, listerVars, packageNames, i, attestationResults,
                   members, calls, batches, batchDelays, overtaken, report, writes>>

\* Promise.all(batchPromises) settled: the non-null results are pushed; then the
\* inter-batch timeout, or after the last batch the report is built and written.
\* A rejection goes to main's catch and process.exit(1).
MainBatchSettled ==
    /\ mpc = "batch"
    /\ BatchSettled(members, i)
    /\ IF BatchRejected(members, i)
       THEN /\ mpc' = "failed"
            /\ exitCode' = 1
            /\ UNCHANGED <<attestationResults, batchDelays, report, writes>>
       ELSE LET results == attestationResults \o BatchResults(members, i) IN
            /\ attestationResults' = results
            /\ IF MoreBatches(i, Len(packageNames))
               THEN /\ mpc' = "delay"
                    /\ batchDelays' = Append(batchDelays, batchDelay)
                    /\ UNCHANGED <<report, writes, exitCode>>
               ELSE /\ mpc' = "done"
                    /\ report' = BuildReport(results)
                    /\ writes' = writes + 1
                    /\ exitCode' = 0
                    /\ UNCHANGED batchDelays
    /\ UNCHANGED <<variant, fw, listerVars, packageNames, i, members, calls,
                   batches, overtaken>>

\* The inter-batch timeout fires: i += batchSize and the next batch is started.
MainBatchTimer ==
    /\ mpc = "delay"
    /\ LET next == NextIndex(i) IN
       /\ i' = next
       /\ IF next < Len(packageNames)
          THEN /\ mpc' = "batch"
               /\ members' = StartBatch(members, variant, packageNames, next)
               /\ calls' = [p \in DOMAIN calls |->
                              IF p \in Range(BatchPositions(next, Len(packageNames)))
                              THEN calls[p] + 1 ELSE calls[p]]
               /\ batches' = Append(batches, BatchPositions(next, Len(packageNames)))
               /\ UNCHANGED <<report, writes, exitCode>>
          ELSE /\ mpc' = "done"
               /\ report' = BuildReport(attestationResults)
               /\ writes' = writes + 1
               /\ exitCode' = 0
               /\ UNCHANGED <<members, calls, batches>>
    /\ UNCHANGED <<variant, fw, listerVars, packageNames, attestationResults,
                   batchDelays, overtaken>>

\* The main process is absent: a function is exercised as a unit.
MainAbsent ==
    /\ mpc = "none"
    /\ packageNames = <<>>
    /\ i = 0
    /\ attestationResults = <<>>
    /\ members = <<>>
    /\ calls = <<>>
    /\ batches = <<>>
    /\ batchDelays = <<>>
    /\ overtaken = FALSE
    /\ report = NoReport
    /\ writes = 0
    /\ exitCode = Running

\* The report is built and written as a unit from the records collected:
\* the rest of main after the batch loop.
ReportWrite ==
    /\ mpc = "report"
    /\ mpc' = "done"
    /\ report' = BuildReport(attestationResults)
    /\ writes' = writes + 1
    /\ exitCode' = 0
    /\ UNCHANGED <<variant, fw, listerVars, packageNames, i, attestationResults,
                   members, calls, batches, batchDelays, overtaken>>

\* Records: `total` of them, the first `withAtt` with an attestation (every
\* other one of those with a trusted publisher), repository URLs url, the
\* GitHub one and the other one in turn.
SampleResults(total, withAtt, url) ==
    [k \in 1..total |->
        [name |-> k,
         version |-> "1.0.0",
         lastUploaded |-> "2024-01-01",
         attestationsUrl |-> IF k <= withAtt THEN AttestationUrl ELSE "",
         trustedPublisherId |-> IF k <= withAtt /\ k % 2 = 1 THEN "github" ELSE "",
         repositoryUrl |-> IF k % 3 = 1 THEN url
                           ELSE IF k % 3 = 2 THEN GithubUrl ELSE OtherUrl]]

InitReport ==
    /\ variant = "full"
    /\ fw = FWIdle
    /\ limit = 0
    /\ lpc = "none"
    /\ page = 0
    /\ allPackages = <<>>
    /\ listed = <<>>
    /\ pagesRequested = <<>>
    /\ pagesReceived = <<>>
    /\ pageDelays = <<>>
    /\ mpc = "report"
    /\ packageNames = <<>>
    /\ i = 0
    /\ \E total \in 0..MaxResults, url \in Urls :
          \E withAtt \in 0..total :
             attestationResults = SampleResults(total, withAtt, url)
    /\ members = <<>>
    /\ calls = <<>>
    /\ batches = <<>>
    /\ batchDelays = <<>>
    /\ overtaken = FALSE
    /\ report = NoReport
    /\ writes = 0
    /\ exitCode = Running

NextReport == ReportWrite

SpecReport == InitReport /\ [][NextReport]_vars

InitFetch ==
    /\ variant = "full"
    /\ \E r \in 1..MaxRetries, b \in BaseDelays : fw = FWCall(r, b)
    /\ limit = 0
    /\ lpc = "unit"
    /\ page = 0
    /\ allPackages = <<>>
    /\ listed = <<>>
    /\ pagesRequested = <<>>
    /\ pagesReceived = <<>>
    /\ pageDelays = <<>>
    /\ MainAbsent

NextFetch == FetchResponse \/ FetchRejected \/ FetchTimer

SpecFetch == InitFetch /\ [][NextFetch]_vars

InitLister ==
    /\ variant \in {"full", "versioned"}
    /\ \E lim \in Limits : ListerInit(lim)
    /\ MainAbsent

NextLister ==
    \/ ListerPageData
    \/ ListerPageMalformed
    \/ ListerPageError
    \/ ListerFetchRejected
    \/ ListerRetryTimer
    \/ ListerPageTimer

SpecLister == InitLister /\ [][NextLister]_vars

----------------------------------------------------------------------------
(* The whole program: main() runs up to its first await as the module loads *)

Init ==
    /\ variant \in {"full", "versioned"}
    /\ ListerInit(mainLimit)
    /\ mpc = "listing"
    /\ packageNames = <<>>
    /\ i = 0
    /\ attestationResults = <<>>
    /\ members = <<>>
    /\ calls = <<>>
    /\ batches = <<>>
    /\ batchDelays = <<>>
    /\ overtaken = FALSE
    /\ report = NoReport
    /\ writes = 0
    /\ exitCode = Running

Next ==
    \/ ListerPageData
    \/ ListerPageMalformed
    \/ ListerPageError
    \/ ListerFetchRejected
    \/ ListerRetryTimer
    \/ ListerPageTimer
    \/ MainListed
    \/ MainListerFailed
    \/ MainBatchSettled
    \/ MainBatchTimer
    \/ \E p \in DOMAIN members : CheckerOk(p)
    \/ \E p \in DOMAIN members : CheckerError(p)
    \/ \E p \in DOMAIN members : CheckerFetchRejected(p)
    \/ \E p \in DOMAIN members : CheckerRetryTimer(p)

Spec == Init /\ [][Next]_vars

\* A run in which whatever is pending eventually happens: a request in flight
\* is answered or rejects, a timer that was set fires, a continuation that is
\* ready runs.
FairSpec == Spec /\ WF_vars(Next)

----------------------------------------------------------------------------
(* Claims about fetchWithRetry, checked under SpecFetch *)

Last(s) == s[Len(s)]

\* The call has the default arguments (retries = 3, baseDelay = 1000).
DefaultCall == fw.retries = retries /\ fw.baseDelay = baseDelay

\* The responses received are k transient errors followed by one ok response.
TransientThenOk(rs) ==
    /\ rs # <<>>
    /\ IsOk(Last(rs))
    /\ \A j \in 1..(Len(rs) - 1) : rs[j] >= 500

\* C1: with the default arguments, when the responses are k transient errors
\* (k in 0..2) followed by an ok response, the call has returned after exactly
\* k + 1 requests and exactly k delays, the j-th delay being 1000 * 2^(j-1);
\* nothing is requested or delayed after the ok response.
C1_RetryThenOk ==
    (DefaultCall /\ TransientThenOk(fw.responses) /\ Len(fw.responses) - 1 \in 0..2)
    => LET k == Len(fw.responses) - 1 IN
       /\ fw.pc = "returned"
       /\ fw.requests = k + 1
       /\ Len(fw.delays) = k
       /\ \A j \in 1..k : fw.delays[j] = 1000 * Pow2(j - 1)

\* 503, 503, 200: delays 1000 then 2000, success on the 3rd attempt.
C1_Witness ==
    /\ DefaultCall
    /\ fw.responses = <<503, 503, 200>>
    /\ fw.pc = "returned"
    /\ fw.delays = <<1000, 2000>>
    /\ fw.requests = 3

\* C2: with the default arguments, the call throws an error carrying the status
\* of the last response exactly when that response is non-ok and either below
\* 500 or the 3rd one; never more than 3 requests; the error follows its
\* response with no further request and no further delay.
C2_ThrowsStatus ==
    DefaultCall =>
       LET rs == fw.responses IN
       /\ fw.requests <= 3
       /\ fw.pc = "thrown" <=>
            (rs # <<>> /\ ~IsOk(Last(rs)) /\ (Last(rs) < 500 \/ Len(rs) = 3))
       /\ fw.pc = "thrown" =>
            /\ fw.error = Last(rs)
            /\ fw.requests = Len(rs)
            /\ Len(fw.delays) = Len(rs) - 1
            /\ \A j \in 1..(Len(rs) - 1) : rs[j] >= 500

\* A transient error on the 3rd attempt is thrown.
C2_Witness ==
    /\ DefaultCall
    /\ fw.pc = "thrown"
    /\ fw.responses = <<503, 500, 503>>
    /\ fw.error = 503
    /\ fw.requests = 3

----------------------------------------------------------------------------
(* Claims about fetchTopNpmPackages, checked under SpecLister *)

\* The items of the pages received, in page order: page p holds lens[1] items.
RECURSIVE ConcatPages(_, _)
ConcatPages(lens, p) ==
    IF lens = <<>> THEN <<>>
    ELSE PageItems(p, Head(lens)) \o ConcatPages(Tail(lens), p + 1)

FirstN(s, n) == [k \in 1..Min(n, Len(s)) |-> s[k]]

\* C9: the list returned has at most N items and is the concatenation, in page
\* order, of the pages received, cut to its first N items; the pages requested
\* are 1, 2, ... up to at most ceil(N/100), page p + 1 only after page p was
\* received.
C9_ListerResult ==
    /\ Len(pagesRequested) <= Ceil(limit, 100)
    /\ \A j \in 1..Len(pagesRequested) : pagesRequested[j] = j
    /\ Len(pagesRequested) <= Len(pagesReceived) + 1
    /\ lpc = "returned" =>
         /\ Len(listed) <= limit
         /\ listed = FirstN(ConcatPages(pagesReceived, 1), limit)

\* N = 150: two full pages are accumulated and cut to 150 items.
C9_Witness ==
    /\ lpc = "returned"
    /\ limit = 150
    /\ pagesReceived = <<100, 100>>
    /\ Len(listed) = 150
    /\ listed[150] = 150

\* C10 as stated: once a page holds fewer than 100 items no later page is
\* requested and the items accumulated so far are what is returned.
C10_EarlyStopAsStated ==
    \A j \in 1..Len(pagesReceived) :
        pagesReceived[j] < 100 =>
            /\ j = Len(pagesReceived)
            /\ Len(pagesRequested) = j
            /\ lpc = "returned"
            /\ listed = ConcatPages(pagesReceived, 1)

\* C10, amended: once a page holds fewer than 100 items no later page is
\* requested and the items accumulated so far, cut to the first N, are returned
\* (all of them when there are at most N).
C10_EarlyStop ==
    \A j \in 1..Len(pagesReceived) :
        pagesReceived[j] < 100 =>
            /\ j = Len(pagesReceived)
            /\ Len(pagesRequested) = j
            /\ lpc = "returned"
            /\ listed = FirstN(ConcatPages(pagesReceived, 1), limit)
            /\ Len(ConcatPages(pagesReceived, 1)) <= limit
                 => listed = ConcatPages(pagesReceived, 1)

\* Limit 500, pages 1-4 full and 42 items on page 5: 442 items, 5 requests.
C10_Witness ==
    /\ limit = 500
    /\ pagesReceived = <<100, 100, 100, 100, 42>>
    /\ lpc = "returned"
    /\ Len(listed) = 442
    /\ pagesRequested = <<1, 2, 3, 4, 5>>


----------------------------------------------------------------------------
(* Claims about main's batch loop, checked under Spec *)

NumRefs == Len(packageNames)

RECURSIVE Flatten(_)
Flatten(ss) == IF ss = <<>> THEN <<>> ELSE Head(ss) \o Flatten(Tail(ss))

\* The 1-based number of the batch that list position p belongs to.
BatchOf(p) == ((p - 1) \div 10) + 1

IsRecord(r) == r # Null /\ r # NoResult /\ r # Rejected

\* C3: the batches formed so far are consecutive slices that cover a prefix of
\* the list in order, each of size 10 except possibly the last of the list, and
\* no ref is checked twice; once the loop is over there are exactly ceil(n/10)
\* batches that partition the list and every ref was checked exactly once.
C3_Batches ==
    /\ Flatten(batches) = [k \in 1..Len(Flatten(batches)) |-> k]
    /\ Len(Flatten(batches)) <= NumRefs
    /\ \A b \in 1..Len(batches) :
          \/ Len(batches[b]) = 10
          \/ /\ Len(batches[b]) \in 1..9
             /\ Last(batches[b]) = NumRefs
    /\ \A p \in DOMAIN calls :
          calls[p] = (IF p <= Len(Flatten(batches)) THEN 1 ELSE 0)
    /\ mpc = "done" =>
          /\ Len(batches) = Ceil(NumRefs, 10)
          /\ Len(Flatten(batches)) = NumRefs
          /\ \A p \in 1..NumRefs : calls[p] = 1

\* 25 refs: batches of 10, 10 and 5.
C3_Witness ==
    /\ mpc = "done"
    /\ NumRefs = 25
    /\ Len(batches) = 3
    /\ Len(batches[1]) = 10 /\ Len(batches[2]) = 10 /\ Len(batches[3]) = 5
    /\ \A p \in 1..25 : calls[p] = 1

\* C4: no checker is invoked, and no registry request is in flight, for a
\* member of a later batch while a member of an earlier batch is unsettled; at
\* most 10 checker invocations are in flight.
C4_Barrier ==
    /\ \A p, q \in DOMAIN members :
          (BatchOf(p) < BatchOf(q) /\ (calls[q] > 0 \/ members[q].pc # "idle"))
             => members[p].pc = "done"
    /\ Cardinality({p \in DOMAIN members : members[p].pc = "fetch"}) <= 10

\* The first batch is held open by one member that is backing off for its 3rd
\* attempt: the other nine have settled and the second batch has not started.
C4_Witness ==
    /\ NumRefs = 25
    /\ mpc = "batch"
    /\ members[1].pc = "fetch"
    /\ members[1].fw.pc = "delay"
    /\ members[1].fw.attempt = 2
    /\ \A p \in 2..10 : members[p].pc = "done"
    /\ \A q \in 11..25 : members[q].pc = "idle" /\ calls[q] = 0

\* C5: a member whose fetch or parse failed has settled with null; no member
\* ever rejects; the run fails only when the lister threw; a batch whose
\* members have all settled lets main go on; a finished run has processed
\* every batch and written a report.
C5_FailureIsNull ==
    /\ \A p \in DOMAIN members :
          /\ members[p].result # Rejected
          /\ members[p].failed => (members[p].pc = "done" /\ members[p].result = Null)
    /\ mpc = "failed" => lpc = "thrown"
    /\ (mpc = "batch" /\ \A p \in Range(BatchPositions(i, NumRefs)) :
                            members[p].pc = "done")
          => ENABLED MainBatchSettled
    /\ mpc = "done" =>
          /\ report.written
          /\ writes = 1
          /\ Len(batches) = Ceil(NumRefs, 10)
          /\ \A p \in 1..NumRefs : members[p].pc = "done"

\* Two members of the first batch failed and the run of 25 refs still went
\* through its three batches and wrote a report.
C5_Witness ==
    /\ mpc = "done"
    /\ NumRefs = 25
    /\ members[1].failed /\ members[2].failed
    /\ report.written
    /\ Len(batches) = 3
    /\ report.total_packages = 23

\* The names of the refs whose checker returned a record, in list order.
RECURSIVE KeptFrom(_)
KeptFrom(p) ==
    IF p > NumRefs THEN <<>>
    ELSE IF IsRecord(members[p].result)
    THEN <<packageNames[p]>> \o KeptFrom(p + 1)
    ELSE KeptFrom(p + 1)

\* C6: the packages of the report are exactly the listed refs whose checker
\* returned a record, in the order of the list, and the entry at position k
\* has rank k.
C6_ReportOrder ==
    report.written =>
       /\ [k \in 1..Len(report.packages) |-> report.packages[k].package] = KeptFrom(1)
       /\ \A k \in 1..Len(report.packages) : report.packages[k].rank = k

\* A report that lost the first ref and one of the second batch.
C6_Witness ==
    /\ report.written
    /\ NumRefs = 25
    /\ members[1].result = Null
    /\ IsRecord(members[2].result)
    /\ members[11].result = Null
    /\ Len(report.packages) = 23
    /\ report.packages[1].package = packageNames[2]

\* The position in the lister's list of the package of a report entry.
ListPosition(name) == CHOOSE p \in 1..NumRefs : packageNames[p] = name

\* The number of refs before list position p whose checker returned no record.
DroppedBefore(p) == Cardinality({q \in 1..(p - 1) : ~IsRecord(members[q].result)})

\* C7 as stated: the rank of every report entry is the position of its package
\* in the lister's list.
C7_RankIsListPositionAsStated ==
    report.written =>
       \A k \in 1..Len(report.packages) :
          report.packages[k].rank = ListPosition(report.packages[k].package)

\* C7, amended: the rank of a report entry is the position of its package in
\* the lister's list less the number of refs dropped before it (so it is the
\* list position exactly when no earlier ref was dropped), and the entries
\* are in increasing list position.
C7_RankIsFilteredPosition ==
    report.written =>
       /\ \A k \in 1..Len(report.packages) :
             LET pos == ListPosition(report.packages[k].package) IN
             report.packages[k].rank = pos - DroppedBefore(pos)
       /\ \A k \in 1..(Len(report.packages) - 1) :
             ListPosition(report.packages[k].package)
                < ListPosition(report.packages[k + 1].package)

\* The first ref was dropped: the second ref of the list has rank 1.
C7_Witness ==
    /\ report.written
    /\ NumRefs >= 2
    /\ members[1].result = Null
    /\ report.packages[1].package = packageNames[2]
    /\ report.packages[1].rank = 1

\* The partial record of the version-scoped strategy for a ref.
IsPartialRecord(r) ==
    /\ IsRecord(r)
    /\ r.version = "" /\ r.attestationsUrl = "" /\ r.trustedPublisherId = ""

InReport(name) ==
    \E k \in 1..Len(report.packages) : report.packages[k].package = name

\* C8 as stated: in the version-scoped strategy a failed lookup settles with a
\* partial record with empty fields, which is in the report.
C8_FailureIsPartialRecordAsStated ==
    variant = "versioned" =>
       \A p \in DOMAIN members :
          members[p].failed =>
             /\ IsPartialRecord(members[p].result)
             /\ report.written => InReport(packageNames[p])

\* C8, amended: in the version-scoped strategy a failed lookup is never
\* propagated and settles with null, so the package is left out of the report;
\* the partial record with empty fields is what a ref without a known version
\* gets, without any request, and that package stays in the report.
C8_FailureIsOmission ==
    variant = "versioned" =>
       /\ mpc = "failed" => lpc = "thrown"
       /\ \A p \in DOMAIN members :
             /\ members[p].result # Rejected
             /\ members[p].failed =>
                   /\ members[p].result = Null
                   /\ report.written => ~InReport(packageNames[p])
             /\ (calls[p] > 0 /\ RankingEntry(packageNames[p]).latest_release_number = Nil)
                   => /\ IsPartialRecord(members[p].result)
                      /\ ~members[p].failed
                      /\ report.written => InReport(packageNames[p])

\* A version-scoped run whose first lookup failed and whose third ref has no
\* version: the report leaves out the first and keeps the third.
C8_Witness ==
    /\ variant = "versioned"
    /\ report.written
    /\ NumRefs >= 3
    /\ members[1].failed
    /\ ~InReport(packageNames[1])
    /\ IsPartialRecord(members[3].result)
    /\ InReport(packageNames[3])

----------------------------------------------------------------------------
(* Claims about the fatal path, checked under Spec *)

\* C11: a page request that fails (fetchWithRetry threw or rejected) makes
\* fetchTopNpmPackages throw; once it threw no checker is or was invoked, no
\* report is written, whatever pages were fetched before, main's catch is the
\* only way on and it ends the process with a non-zero exit status.
C11_ListerFailureIsFatal ==
    /\ (mpc \in {"listing", "failed"} /\ fw.pc \in {"thrown", "rejected"})
          => lpc = "thrown"
    /\ lpc = "thrown" =>
          /\ mpc \in {"listing", "failed"}
          /\ members = <<>> /\ calls = <<>> /\ batches = <<>>
          /\ ~report.written
          /\ writes = 0
          /\ mpc = "listing" => (exitCode = Running /\ ENABLED MainListerFailed)
          /\ mpc = "failed" => (exitCode # 0 /\ exitCode # Running)

\* Two pages were fetched, the third exhausted its retries: exit status 1 and
\* no report.
C11_Witness ==
    /\ mpc = "failed"
    /\ exitCode = 1
    /\ pagesReceived = <<100, 100>>
    /\ fw.pc = "thrown"
    /\ fw.responses = <<503, 503, 503>>
    /\ ~report.written
    /\ writes = 0

----------------------------------------------------------------------------
(* Claims about fetchPackageAttestation, checked under Spec *)

\* The value a ranking field is recorded with: the empty string when null.
Known(x) == IF x = Nil THEN "" ELSE x

\* C12: in the version-scoped strategy a ref without a known version never has
\* a registry request; its checker returns at once a record whose version,
\* attestationsUrl and trustedPublisherId are empty and whose lastUploaded and
\* repositoryUrl are the ref's publish timestamp and repository URL (empty
\* when null); the report holds that package with these fields.
C12_NoVersionPartialRecord ==
    variant = "versioned" =>
       \A p \in DOMAIN members :
          LET e == RankingEntry(packageNames[p]) IN
          e.latest_release_number = Nil =>
             /\ members[p].pc \in {"idle", "done"}
             /\ members[p].fw.requests = 0
             /\ calls[p] > 0 =>
                   /\ members[p].pc = "done"
                   /\ members[p].result =
                         [name |-> e.name,
                          version |-> "",
                          lastUploaded |-> Known(e.latest_release_published_at),
                          attestationsUrl |-> "",
                          trustedPublisherId |-> "",
                          repositoryUrl |-> Known(e.repository_url)]
             /\ report.written =>
                   \E k \in 1..Len(report.packages) :
                      LET r == report.packages[k] IN
                      /\ r.package = e.name
                      /\ r.version = "" /\ r.attestationsUrl = ""
                      /\ r.trustedPublisherId = ""
                      /\ r.lastUploaded = Known(e.latest_release_published_at)
                      /\ r.repositoryUrl = Known(e.repository_url)

\* A version-scoped report of 25 refs: ref 3 has no version and keeps its
\* timestamp and repository URL, ref 8 has no repository URL, ref 23 no timestamp.
C12_Witness ==
    /\ variant = "versioned"
    /\ report.written
    /\ NumRefs = 25
    /\ \E k \in 1..Len(report.packages) :
          /\ report.packages[k].package = 3
          /\ report.packages[k].version = ""
          /\ report.packages[k].lastUploaded = "2024-01-01"
          /\ report.packages[k].repositoryUrl = GithubUrl
    /\ \E k \in 1..Len(report.packages) :
          /\ report.packages[k].package = 8
          /\ report.packages[k].repositoryUrl = ""
    /\ \E k \in 1..Len(report.packages) :
          /\ report.packages[k].package = 23
          /\ report.packages[k].lastUploaded = ""

\* C13: in the full-document strategy a member that read a document without a
\* `latest` tag, or without an entry for that version, returned no record and
\* its package is not in the report; a member returned a record only from a
\* document with both, and then the version is the `latest` tag and the
\* attestation and trusted-publisher fields are those of that version's entry.
C13_FullDocument ==
    variant = "full" =>
       \A p \in DOMAIN members :
          LET id == packageNames[p]
              r == members[p].result IN
          /\ members[p].doc \in {"nolatest", "noversion"} =>
                /\ r = Null
                /\ report.written => ~InReport(id)
          /\ IsRecord(r) => members[p].doc = "good"
          /\ members[p].doc = "good" =>
                /\ IsRecord(r)
                /\ r.version = "1.0.0"
                /\ r.attestationsUrl = (IF id % 3 = 0 THEN AttestationUrl ELSE "")
                /\ r.trustedPublisherId = (IF id % 6 = 0 THEN "github" ELSE "")
                /\ report.written => InReport(id)

\* A full-document report: ref 1 had no latest tag, ref 2 no entry for it, both
\* are left out; ref 3 is in with its version and attestation URL.
C13_Witness ==
    /\ variant = "full"
    /\ report.written
    /\ NumRefs >= 3
    /\ members[1].doc = "nolatest" /\ ~InReport(1)
    /\ members[2].doc = "noversion" /\ ~InReport(2)
    /\ report.packages[1].package = 3
    /\ report.packages[1].version = "1.0.0"
    /\ report.packages[1].attestationsUrl = AttestationUrl

----------------------------------------------------------------------------
(* Claims about the delays, checked under Spec and SpecLister *)

\* C14: every inter-batch delay is 1000 ms; while batch k is in flight k - 1
\* delays were set, one is set when a batch that is not the last has settled
\* and the next batch starts only after it; a finished run of n refs has set
\* exactly max(ceil(n/10) - 1, 0) delays, none after the final batch.
C14_BatchDelays ==
    /\ \A j \in 1..Len(batchDelays) : batchDelays[j] = 1000
    /\ mpc = "listing" => batchDelays = <<>>
    /\ mpc = "batch" => Len(batchDelays) = Len(batches) - 1
    /\ mpc = "delay" =>
          /\ Len(batchDelays) = Len(batches)
          /\ Len(batches) < Ceil(NumRefs, 10)
          /\ \A p \in Range(Last(batches)) : members[p].pc = "done"
    /\ mpc = "done" =>
          Len(batchDelays) = (IF NumRefs = 0 THEN 0 ELSE Ceil(NumRefs, 10) - 1)

\* 25 refs: two delays of 1000 ms, none after the third batch.
C14_Witness ==
    /\ mpc = "done"
    /\ NumRefs = 25
    /\ Len(batches) = 3
    /\ batchDelays = <<1000, 1000>>

\* C15: every inter-page delay is 500 ms; while page k is requested k - 1
\* delays were set; a delay is pending only after a full page that is not page
\* ceil(N/100), so the next request follows it; when the lister has returned
\* or thrown, the delays are one fewer than the pages requested: none after
\* the last page requested, be it page ceil(N/100) or a short page.
C15_PageDelays ==
    /\ \A j \in 1..Len(pageDelays) : pageDelays[j] = 500
    /\ lpc = "fetch" => Len(pageDelays) = Len(pagesRequested) - 1
    /\ lpc = "delay" =>
          /\ Len(pageDelays) = Len(pagesRequested)
          /\ Len(pagesReceived) = Len(pagesRequested)
          /\ Last(pagesReceived) >= 100
          /\ Len(pagesRequested) < Ceil(limit, 100)
    /\ lpc \in {"returned", "thrown"} =>
          Len(pageDelays) =
             (IF pagesRequested = <<>> THEN 0 ELSE Len(pagesRequested) - 1)

\* Limit 500, two full pages and a short third one: two delays, none after
\* the short page.
C15_Witness ==
    /\ limit = 500
    /\ lpc = "returned"
    /\ pagesReceived = <<100, 100, 42>>
    /\ pagesRequested = <<1, 2, 3>>
    /\ pageDelays = <<500, 500>>

----------------------------------------------------------------------------
(* Claims about the report's summary, checked under SpecReport *)

\* The distance of x from y.
AbsDiff(x, y) == IF x >= y THEN x - y ELSE y - x

\* C16: in a written report total_packages is the number of entries of
\* packages, packages_with_attestations is the number of entries with a
\* non-empty attestationsUrl, and attestation_percentage is
\* packages_with_attestations / total_packages * 100 to one decimal: the tenth
\* nearest to the exact quotient.
C16_Summary ==
    report.written =>
       /\ report.total_packages = Len(report.packages)
       /\ report.packages_with_attestations =
             Cardinality({k \in 1..Len(report.packages) :
                             report.packages[k].attestationsUrl # ""})
       /\ report.total_packages > 0 =>
             /\ ~report.percentage_is_nan
             /\ 2 * AbsDiff(report.percentage_tenths * report.total_packages,
                            1000 * report.packages_with_attestations)
                   <= report.total_packages

\* 3 of 7 entries have an attestation: 42.9.
C16_Witness ==
    /\ report.written
    /\ Len(report.packages) = 7
    /\ report.packages_with_attestations = 3
    /\ report.percentage_tenths = 429

----------------------------------------------------------------------------
(* Claims about the entries' fields, checked under Spec *)

\* What the upstream holds for the five fields of package id: the registry's
\* document in the full-document strategy; the ranking entry and the version
\* document in the version-scoped one.
UpstreamFields(v, id) ==
    LET doc == RegistryDoc(id, "good")
        pkg == RankingEntry(id) IN
    IF v = "full"
    THEN [version |-> doc.latest, lastUploaded |-> doc.time,
          attestationsUrl |-> doc.attestationsUrl,
          trustedPublisherId |-> doc.trustedPublisherId,
          repositoryUrl |-> doc.repositoryUrl]
    ELSE [version |-> pkg.latest_release_number,
          lastUploaded |-> pkg.latest_release_published_at,
          attestationsUrl |-> doc.attestationsUrl,
          trustedPublisherId |-> doc.trustedPublisherId,
          repositoryUrl |-> pkg.repository_url]

\* C17: in a written report every entry's version, lastUploaded,
\* attestationsUrl, trustedPublisherId and repositoryUrl is a string, never
\* null or undefined: it is the upstream value, or the empty string when the
\* upstream value is absent or null (and the attestation fields are empty
\* when no version was looked up).
C17_FieldsAreStrings ==
    report.written =>
       \A k \in 1..Len(report.packages) :
          LET e == report.packages[k]
              up == UpstreamFields(variant, e.package) IN
          /\ e.version # Nil /\ e.version = Known(up.version)
          /\ e.lastUploaded # Nil /\ e.lastUploaded = Known(up.lastUploaded)
          /\ e.repositoryUrl # Nil /\ e.repositoryUrl = Known(up.repositoryUrl)
          /\ e.attestationsUrl # Nil
          /\ e.trustedPublisherId # Nil
          /\ e.attestationsUrl =
                (IF e.version = "" THEN "" ELSE Known(up.attestationsUrl))
          /\ e.trustedPublisherId =
                (IF e.version = "" THEN "" ELSE Known(up.trustedPublisherId))

\* Package 4 has no repository and no attestation upstream, package 5 no
\* publish time: the report holds both with empty strings there.
C17_Witness ==
    /\ report.written
    /\ \E k \in 1..Len(report.packages) :
          /\ report.packages[k].package = 4
          /\ RegistryDoc(4, "good").repositoryUrl = Nil
          /\ report.packages[k].repositoryUrl = ""
          /\ report.packages[k].attestationsUrl = ""
          /\ report.packages[k].trustedPublisherId = ""
    /\ \E k \in 1..Len(report.packages) :
          /\ report.packages[k].package = 5
          /\ RankingEntry(5).latest_release_published_at = Nil
          /\ report.packages[k].lastUploaded = ""

----------------------------------------------------------------------------
(* Determinism, checked under Spec.  That two runs with the same upstream     *)
(* answers write the same report is shown as: the report is a function of the *)
(* upstream answers alone, namely the strategy, the list the ranking API      *)
(* yielded and for every ref what the registry finally answered (members'     *)
(* history fields `failed` and `doc`).  The order in which the fetches of a   *)
(* batch complete is not an argument of that function.                        *)

\* The ref at position p is answered without a request.
AnsweredUnasked(p) ==
    variant = "versioned" /\ RankingEntry(packageNames[p]).latest_release_number = Nil

\* What the registry's final answer for the ref at position p yields: Null when
\* the lookup failed or the document names no usable version, else the record.
AnswerRecord(p) ==
    LET id == packageNames[p]
        up == UpstreamFields(variant, id)
        asked == ~AnsweredUnasked(p) IN
    IF asked /\ (members[p].failed \/ members[p].doc # "good")
    THEN Null
    ELSE [name |-> id,
          version |-> Known(up.version),
          lastUploaded |-> Known(up.lastUploaded),
          attestationsUrl |-> IF asked THEN Known(up.attestationsUrl) ELSE "",
          trustedPublisherId |-> IF asked THEN Known(up.trustedPublisherId) ELSE "",
          repositoryUrl |-> Known(up.repositoryUrl)]

\* The positions whose answer yields a record, in list order.
AnsweredPositions ==
    SelectSeq([p \in 1..NumRefs |-> p], LAMBDA p : AnswerRecord(p) # Null)

\* The report the upstream answers determine.
AnswersReport ==
    LET kept == AnsweredPositions
        total == Len(kept)
        withAtt == Cardinality({k \in 1..total :
                                   AnswerRecord(kept[k]).attestationsUrl # ""}) IN
    [written |-> TRUE,
     total_packages |-> total,
     packages_with_attestations |-> withAtt,
     percentage_is_nan |-> total = 0,
     percentage_tenths |-> IF total = 0 THEN 0 ELSE PercentTenths(withAtt, total),
     packages |->
        [k \in 1..total |->
            LET r == AnswerRecord(kept[k]) IN
            [rank |-> k,
             package |-> r.name,
             version |-> r.version,
             lastUploaded |-> r.lastUploaded,
             attestationsUrl |-> r.attestationsUrl,
             trustedPublisherId |-> r.trustedPublisherId,
             repositoryUrl |-> r.repositoryUrl,
             isSupportedPlatform |-> IsSupportedPlatform(r.repositoryUrl)]]]

\* C18: a run's report is determined by the upstream answers: every settled
\* checker holds the value its own answer yields, whatever the other members
\* of its batch have done so far; the written report is the one the answers
\* determine, in every field; and it is written once.  So two runs against
\* the same answers write the same report, in whatever order the fetches of a
\* batch complete.
C18_Deterministic ==
    /\ \A p \in DOMAIN members :
          members[p].pc = "done" => members[p].result = AnswerRecord(p)
    /\ report.written =>
          /\ report = AnswersReport
          /\ writes = 1

\* A finished run of two batches in which a checker settled while an earlier
\* one of its batch was still in flight, the first ref's lookup being answered
\* only on a retry: the report holds the packages in list order.
C18_Witness ==
    /\ report.written
    /\ overtaken
    /\ NumRefs = 11
    /\ Len(batches) = 2
    /\ Len(report.packages) = 11
    /\ \A k \in 1..11 : report.packages[k].package = packageNames[k]

----------------------------------------------------------------------------
(* Claims about isSupportedPlatform, checked under SpecReport *)

\* pat occurs somewhere in s.
Occurs(s, pat) ==
    \E k \in 0..(Len(s) - Len(pat)) : \A j \in 1..Len(pat) : s[k + j] = pat[j]

StartsWith(s, pat) ==
    Len(pat) <= Len(s) /\ \A j \in 1..Len(pat) : s[j] = pat[j]

EndsWith(s, pat) ==
    Len(pat) <= Len(s) /\ \A j \in 1..Len(pat) : s[Len(s) - Len(pat) + j] = pat[j]

\* s without a leading `git+` and then without a trailing `.git`.
Stripped(s) ==
    LET a == IF StartsWith(s, GitPlus)
             THEN [k \in 1..(Len(s) - Len(GitPlus)) |-> s[k + Len(GitPlus)]]
             ELSE s IN
    IF EndsWith(a, DotGit)
    THEN [k \in 1..(Len(a) - Len(DotGit)) |-> a[k]]
    ELSE a

\* The stripped s contains github.com or gitlab.com.
NamesPlatform(s) ==
    Occurs(Stripped(s), GithubCom) \/ Occurs(Stripped(s), GitlabCom)

\* The three URLs the specification gives the function's value for.
C19_Examples ==
    /\ IsSupportedPlatform("git+https://github.com/foo/bar.git")
    /\ ~IsSupportedPlatform("")
    /\ ~IsSupportedPlatform("https://example.com/foo")

\* C19 as stated: isSupportedPlatform(url) is true iff url, after stripping a
\* leading `git+` and a trailing `.git`, contains github.com or gitlab.com, and
\* every entry's flag is that function of its repositoryUrl.  It fails for a
\* URL that names the platform in upper case, which the code accepts.
C19_PlatformAsStated ==
    /\ C19_Examples
    /\ report.written =>
          \A k \in 1..Len(report.packages) :
             LET e == report.packages[k] IN
             /\ e.isSupportedPlatform = IsSupportedPlatform(e.repositoryUrl)
             /\ e.isSupportedPlatform = NamesPlatform(Chars(e.repositoryUrl))

\* C19 (amended): isSupportedPlatform(url) is true iff url, lower-cased and
\* then stripped of a leading `git+` and of a trailing `.git`, contains
\* github.com or gitlab.com; it is true for
\* "git+https://github.com/foo/bar.git", false for "" and for
\* "https://example.com/foo"; and every entry's flag is that function of its
\* repositoryUrl.
C19_Platform ==
    /\ C19_Examples
    /\ report.written =>
          \A k \in 1..Len(report.packages) :
             LET e == report.packages[k] IN
             /\ e.isSupportedPlatform = IsSupportedPlatform(e.repositoryUrl)
             /\ e.isSupportedPlatform =
                   NamesPlatform([j \in 1..Len(Chars(e.repositoryUrl)) |->
                                     LowerChar(Chars(e.repositoryUrl)[j])])

\* A report whose first three entries have a mixed-case GitHub URL, the
\* `git+https://github.com/foo/bar.git` URL and the example.com URL: supported,
\* supported, not supported.
C19_Witness ==
    /\ report.written
    /\ Len(report.packages) >= 3
    /\ report.packages[1].repositoryUrl = "https://GitHub.com/Foo/Bar"
    /\ report.packages[1].isSupportedPlatform
    /\ report.packages[2].repositoryUrl = "git+https://github.com/foo/bar.git"
    /\ report.packages[2].isSupportedPlatform
    /\ report.packages[3].repositoryUrl = "https://example.com/foo"
    /\ ~report.packages[3].isSupportedPlatform

----------------------------------------------------------------------------
(* The summary's range, checked under Spec *)

\* C20: in every written report 0 <= packages_with_attestations <=
\* total_packages and attestation_percentage is a number between 0 and 100,
\* also when total_packages is 0.  The code divides by total_packages: with no
\* entry the percentage is NaN, which JSON.stringify writes as null.
C20_SummaryInRange ==
    report.written =>
       /\ 0 <= report.packages_with_attestations
       /\ report.packages_with_attestations <= report.total_packages
       /\ ~report.percentage_is_nan
       /\ 0 <= report.percentage_tenths
       /\ report.percentage_tenths <= 1000

\* The part of C20 that holds: the counts are in range, and with at least one
\* entry the percentage is a number between 0 and 100.
C20_SummaryInRangeNonEmpty ==
    report.written =>
       /\ 0 <= report.packages_with_attestations
       /\ report.packages_with_attestations <= report.total_packages
       /\ report.total_packages > 0 =>
             /\ ~report.percentage_is_nan
             /\ 0 <= report.percentage_tenths
             /\ report.percentage_tenths <= 1000

\* A report written for a run whose only ref was dropped: no entry, and the
\* percentage is not a number.
C20_EmptyReport ==
    /\ report.written
    /\ NumRefs = 1
    /\ members[1].failed
    /\ report.total_packages = 0
    /\ report.percentage_is_nan

----------------------------------------------------------------------------
(* Termination, checked under FairSpec *)

\* The run has ended well: the last batch has settled, the report was written
\* once and the exit status is 0.
EndedWithReport ==
    /\ mpc = "done"
    /\ exitCode = 0
    /\ report.written
    /\ writes = 1
    /\ Len(batches) = Ceil(NumRefs, 10)
    /\ \A p \in 1..NumRefs : members[p].pc = "done"

\* The run has ended badly: no report and a non-zero exit status.
EndedWithoutReport ==
    /\ mpc = "failed"
    /\ exitCode # Running
    /\ exitCode # 0
    /\ ~report.written
    /\ writes = 0

\* The lister returned more refs than the batch loop is followed for.
BeyondMaxRefs == mpc = "listing" /\ lpc = "returned" /\ Len(listed) > MaxRefs

\* C21: when whatever is pending eventually happens, every run (of at most
\* MaxRefs refs) eventually ends, and it ends in exactly one of two ways:
\* the report is written exactly once, after the last batch has settled, and
\* the exit status is 0; or no report is written and the exit status is not 0.
\* No report exists before the end, and an ended run stays as it is.
C21_Terminates ==
    /\ [](exitCode # Running => (EndedWithReport \/ EndedWithoutReport))
    /\ []((report.written \/ writes > 0) => EndedWithReport)
    /\ []~(EndedWithReport /\ EndedWithoutReport)
    /\ [][exitCode # Running => UNCHANGED vars]_vars
    /\ <>(EndedWithReport \/ EndedWithoutReport \/ BeyondMaxRefs)

\* A run of three batches that lost a package to a failed lookup has ended
\* with its report and status 0.
C21_Witness ==
    /\ EndedWithReport
    /\ NumRefs = 25
    /\ Len(batches) = 3
    /\ members[1].failed
    /\ report.total_packages = 24

----------------------------------------------------------------------------
(* A rejected fetch, checked under Spec *)

\* In the frame c every backoff followed a response with status >= 500, and
\* every response but the last was followed by a backoff.
RetriedOnly5xx(c) ==
    /\ Len(c.delays) <= Len(c.responses)
    /\ Len(c.responses) <= Len(c.delays) + 1
    /\ \A j \in 1..Len(c.delays) : c.responses[j] >= 500

\* The frame c2 is the frame c ended by a rejection: no response, no backoff
\* and no request were added.
EndedByRejection(c, c2) ==
    /\ c2.pc = "rejected"
    /\ c2.responses = c.responses
    /\ c2.delays = c.delays
    /\ c2.requests = c.requests
    /\ c2.attempt = c.attempt

\* C22: fetchWithRetry retries only after a response with status >= 500.  When
\* fetch itself rejects, on whichever attempt, the call ends at once with no
\* backoff and no further request.  In the lister the rejection ends the
\* lister, no further page is requested and the run is fatal: no report, exit
\* status 1.  In the checker the rejection is caught: the checker settles with
\* null and the package is not in the report.
C22_RejectionPropagates ==
    /\ [](RetriedOnly5xx(fw) /\ \A p \in DOMAIN members : RetriedOnly5xx(members[p].fw))
    /\ [][ListerFetchRejected =>
             /\ EndedByRejection(fw, fw')
             /\ lpc' = "thrown"
             /\ pagesRequested' = pagesRequested
             /\ pageDelays' = pageDelays]_vars
    /\ []((lpc = "thrown" /\ fw.pc = "rejected") =>
             /\ mpc \in {"listing", "failed"}
             /\ ~report.written
             /\ mpc = "listing" => ENABLED MainListerFailed
             /\ mpc = "failed" => exitCode = 1
             /\ ~ENABLED (ListerRetryTimer \/ ListerPageTimer \/ ListerPageData
                            \/ ListerPageError \/ MainListed))
    /\ [][\A p \in DOMAIN members :
             CheckerFetchRejected(p) =>
                /\ members'[p].pc = "done"
                /\ members'[p].result = Null
                /\ members'[p].failed
                /\ calls'[p] = calls[p]]_vars
    /\ [](\A p \in DOMAIN members :
             members[p].failed =>
                /\ members[p].result = Null
                /\ ~ENABLED CheckerRetryTimer(p)
                /\ ~ENABLED CheckerOk(p)
                /\ report.written => ~InReport(packageNames[p]))

\* The ranking request was answered 503, retried after 1000 ms and then
\* rejected: two requests, one backoff, the run ended with status 1 and no
\* report.
C22_Witness ==
    /\ lpc = "thrown"
    /\ fw.pc = "rejected"
    /\ fw.responses = <<503>>
    /\ fw.delays = <<1000>>
    /\ fw.requests = 2
    /\ pagesRequested = <<1>>
    /\ mpc = "failed"
    /\ exitCode = 1
    /\ ~report.written

====
